---------------------------- MODULE Spec2Model ----------------------------
(***************************************************************************)
(* Model of the civic issue reporting client:                              *)
(*   - ViewReports (public Issue Collection View): initial fetch, push     *)
(*     feed handler, filter / sort projection;                             *)
(*   - AuthProvider / AdminProvider (session and role mirror),             *)
(*     AdminAuth.handleLogin, UserMenu.handleLogout;                       *)
(*   - ReportModal.handleSubmit (report submission form).                  *)
(* Each component has its own specification over the shared variables.     *)
(***************************************************************************)
EXTENDS Integers, Sequences, FiniteSets, TLC

VARIABLES
    \* ---- ViewReports component state (useState hooks)
    reports,          \* base collection
    filteredReports,  \* derived projection
    loading,          \* ViewReports loading flag
    error,            \* None or Some(message)
    searchTerm, statusFilter, categoryFilter, sortBy,
    \* ---- ViewReports environment
    viewMounted,      \* the fetch / subscription effect has run
    fetchPc,          \* "idle" | "pending" | "done"
    channelOpen,      \* 'public-issues-changes' channel is subscribed
    activeChannels,   \* channels of the view the client still holds
    announced,        \* ids whose INSERT event the backend has sent
    merged,           \* ids of the non-spam INSERT events this mount handled
    delivered,        \* push event handled by the latest step (None if none)
    exported,         \* files written and count announced by handleExport if
                      \* the latest step ran it, else None
    \* ---- notifications and calls of the latest handler invocation
    toasts,           \* titles of the notifications it raised, in order
    trace,            \* backend / context calls it made, in order
    \* ---- AuthProvider / AdminProvider
    storage,          \* localStorage: key -> None or Some(string)
    isAuthenticated, authLoading,
    isAdmin, adminLoading,
    renderedAuth,     \* isAuthenticated of the last committed render
    bootStorage,      \* localStorage as it was when the page was loaded
    effects,          \* effects of the last commit still to run, in order
    session,          \* backend session is signed in
    \* ---- AdminAuth
    loginLoading, loginPc, signInResult, rpcResult,
    \* ---- UserMenu
    logoutPc,
    \* ---- ReportModal
    location,         \* None or Some(location name)
    photo,            \* None or Some(file name)
    fields,           \* form field -> it is non-empty
    isSubmitting,
    submitPc,         \* "idle" | "upload" | "insert"
    modalOpen,        \* the isOpen prop
    geoPending,       \* getCurrentPosition requests not yet answered
    geocodePending,   \* reverse-geocode fetches not yet answered
    submitSeen,       \* form seen by handleSubmit if the latest step ran its
                      \* synchronous part, else None
    imageUrl,         \* handleSubmit's local `imageUrl`
    stored,           \* bucket object written by the latest accepted submit
    inserted,         \* rows the backend stored for the latest accepted submit
    requests,         \* upload / insert requests of the form still in flight
    geoFailed,        \* the geolocation error callback has run
    \* ---- AnalyticsContent (either dashboard)
    dashboard,        \* which of the two dashboards is open
    table,            \* the backend's issues table
    analyticsPc,      \* "idle" | "pending" | "done"
    fetchOutcome,     \* what the dashboard's fetch came back with
    analyticsLoading,
    monthlyData, categoryData, reportsByDayData, resolutionTimeData,
    locationData

viewVars == <<reports, filteredReports, loading, error, searchTerm,
              statusFilter, categoryFilter, sortBy, viewMounted, fetchPc,
              channelOpen, activeChannels, announced, merged, delivered>>
exportVars == <<exported>>
analyticsVars == <<dashboard, table, analyticsPc, fetchOutcome,
                   analyticsLoading, monthlyData, categoryData,
                   reportsByDayData, resolutionTimeData, locationData>>
logVars == <<toasts, trace>>
authVars == <<storage, isAuthenticated, authLoading, isAdmin, adminLoading,
              renderedAuth, bootStorage, effects, session, loginLoading, loginPc,
              signInResult, rpcResult, logoutPc>>
modalVars == <<location, photo, fields, isSubmitting, submitPc, modalOpen,
               geoPending, geocodePending, submitSeen, imageUrl, stored,
               inserted, requests, geoFailed>>
vars == <<viewVars, exportVars, logVars, authVars, modalVars, analyticsVars>>

-----------------------------------------------------------------------------
(* Bounds *)
MaxReports == 2   \* longest base collection held by the mounted view
MaxBase == 2      \* longest base collection given to the projection
MaxId == 2        \* issue identifiers 1..MaxId
MaxGeo == 2       \* geolocation lookups in flight at once
MaxIssues == 3    \* longest issues table drawn from the row pool
MaxBoost == 2     \* issues added to the one-per-ward table

-----------------------------------------------------------------------------
(* Optional values: null / undefined is None, a present value v is Some(v) *)
None == <<>>
Some(v) == <<v>>
IsSome(o) == o # <<>>
Get(o) == o[1]

\* JavaScript `x || 0` on an optional number
OrZero(o) == IF IsSome(o) /\ Get(o) # 0 THEN Get(o) ELSE 0

-----------------------------------------------------------------------------
(* Text: a string is a sequence of one-character strings *)
LowerChar(c) ==
    CASE c = "A" -> "a"
      [] c = "B" -> "b"
      [] OTHER -> c

toLowerCase(s) == [i \in 1..Len(s) |-> LowerChar(s[i])]

\* String.prototype.includes
includes(hay, needle) ==
    \E i \in 0..(Len(hay) - Len(needle)) :
        SubSeq(hay, i + 1, i + Len(needle)) = needle

-----------------------------------------------------------------------------
(* Timestamps: created_at is a calendar date <<year, month, day>>.          *)
(* getTime is Date.getTime() in hours (milliseconds / 3600000).            *)
IsLeap(y) == (y % 4 = 0 /\ y % 100 # 0) \/ y % 400 = 0

DaysInMonth(y, m) ==
    CASE m \in {1, 3, 5, 7, 8, 10, 12} -> 31
      [] m \in {4, 6, 9, 11} -> 30
      [] OTHER -> IF IsLeap(y) THEN 29 ELSE 28

\* days from 1970-01-01 to January 1st of year y (y >= 1970)
DaysBeforeYear(y) ==
    365 * (y - 1970) + ((y - 1969) \div 4) - ((y - 1901) \div 100)
        + ((y - 1601) \div 400)

RECURSIVE DaysBeforeMonth(_, _)
DaysBeforeMonth(y, m) ==
    IF m <= 1 THEN 0
    ELSE DaysBeforeMonth(y, m - 1) + DaysInMonth(y, m - 1)

getTime(d) == (DaysBeforeYear(d[1]) + DaysBeforeMonth(d[1], d[2]) + (d[3] - 1)) * 24

-----------------------------------------------------------------------------
(* Issue rows *)
Row(id, title, description, loc, status, category, up, prio, created, spam) ==
    [id |-> id, title |-> title, description |-> description,
     location_name |-> loc, status |-> status, category |-> category,
     upvotes_count |-> up, priority_score |-> prio, created_at |-> created,
     is_spam |-> spam]

Ids == 1..MaxId

\* created_at is assigned at insert and never changes: one date per id
CreatedOf(id) == <<2024, 1, id>>

\* Rows the backend can hold or announce for the mounted view
ViewRows ==
    { Row(id, <<"b">>, <<"b">>, None, st, "Pothole", None, None,
          CreatedOf(id), spam) :
        id \in Ids, st \in {"new", "resolved"}, spam \in BOOLEAN }

\* Rows given to the projection: the text fields, the facets and the sort
\* keys each vary around one base row
BaseRow == Row(1, <<"b">>, <<"b">>, None, "new", "Pothole", None, None,
               <<2024, 1, 5>>, FALSE)

TextRows ==
    { [BaseRow EXCEPT !.title = <<"A", "b">>],
      [BaseRow EXCEPT !.description = <<"b", "a", "B">>],
      [BaseRow EXCEPT !.location_name = Some(<<"a", "b">>)] }

FacetRows ==
    { [BaseRow EXCEPT !.status = "resolved"],
      [BaseRow EXCEPT !.category = "Other"] }

SortRows ==
    { [BaseRow EXCEPT !.upvotes_count = u] : u \in {Some(0), Some(2)} }
    \cup { [BaseRow EXCEPT !.priority_score = Some(1)],
           [BaseRow EXCEPT !.created_at = <<2023, 12, 31>>] }

ProjRows == {BaseRow} \cup TextRows \cup FacetRows \cup SortRows

\* inputs of the filter controls
SearchTerms == {<<>>, <<"a", "B">>}
StatusFilters == {"all", "new", "in_progress", "resolved"}
CategoryFilters == {"all", "Pothole", "Other"}
SortKeys == {"newest", "popular", "priority", "oldest"}

RECURSIVE SeqsUpTo(_, _)
SeqsUpTo(S, n) ==
    IF n = 0 THEN {<<>>}
    ELSE LET shorter == SeqsUpTo(S, n - 1)
         IN  shorter \cup { Append(s, x) : s \in shorter, x \in S }

-----------------------------------------------------------------------------
(* ViewReports: filter and sort effect *)
\* variant: the search text is compared without lower-casing it
matchesSearch_RawTerm(report, term) ==
    \/ includes(toLowerCase(report.title), term)
    \/ includes(toLowerCase(report.description), term)
    \/ /\ IsSome(report.location_name)
       /\ includes(toLowerCase(Get(report.location_name)), term)

matchesSearch(report, term) ==
    \/ includes(toLowerCase(report.title), toLowerCase(term))
    \/ includes(toLowerCase(report.description), toLowerCase(term))
    \/ /\ IsSome(report.location_name)
       /\ includes(toLowerCase(Get(report.location_name)), toLowerCase(term))

matchesStatus(report, sf) == sf = "all" \/ report.status = sf

matchesCategory(report, cf) == cf = "all" \/ report.category = cf

FilterReports(rs, term, sf, cf) ==
    SelectSeq(rs, LAMBDA r : /\ matchesSearch(r, term)
                             /\ matchesStatus(r, sf)
                             /\ matchesCategory(r, cf))

\* variant: 'popular' compares the raw fields, a before b
Compare_PopularAscending(a, b, key) ==
    CASE key = "popular" -> OrZero(a.upvotes_count) - OrZero(b.upvotes_count)
      [] key = "priority" -> OrZero(b.priority_score) - OrZero(a.priority_score)
      [] key = "newest" -> getTime(b.created_at) - getTime(a.created_at)
      [] key = "oldest" -> getTime(a.created_at) - getTime(b.created_at)
      [] OTHER -> getTime(b.created_at) - getTime(a.created_at)

\* the comparator passed to Array.prototype.sort
Compare(a, b, key) ==
    CASE key = "popular" -> OrZero(b.upvotes_count) - OrZero(a.upvotes_count)
      [] key = "priority" -> OrZero(b.priority_score) - OrZero(a.priority_score)
      [] key = "newest" -> getTime(b.created_at) - getTime(a.created_at)
      [] key = "oldest" -> getTime(a.created_at) - getTime(b.created_at)
      [] OTHER -> getTime(b.created_at) - getTime(a.created_at)

\* Array.prototype.sort is stable: x goes behind every element it does not
\* strictly precede
RECURSIVE InsertSorted(_, _, _)
InsertSorted(sorted, x, key) ==
    IF sorted = <<>> THEN <<x>>
    ELSE IF Compare(Head(sorted), x, key) > 0
         THEN <<x>> \o sorted
         ELSE <<Head(sorted)>> \o InsertSorted(Tail(sorted), x, key)

RECURSIVE SortReports(_, _)
SortReports(rs, key) ==
    IF rs = <<>> THEN <<>>
    ELSE InsertSorted(SortReports(SubSeq(rs, 1, Len(rs) - 1), key),
                      rs[Len(rs)], key)

Project(rs, term, sf, cf, key) ==
    SortReports(FilterReports(rs, term, sf, cf), key)


-----------------------------------------------------------------------------
(* Construction: the values of the useState hooks before any effect runs *)
Keys == {"isAuthenticated", "isAdmin"}
FieldNames == {"title", "category", "description", "streetAddress",
               "landmark"}
NoFields == [f \in FieldNames |-> FALSE]

ViewConstructed ==
    /\ reports = <<>>
    /\ filteredReports = <<>>
    /\ loading = TRUE
    /\ error = None
    /\ searchTerm = <<>>
    /\ statusFilter = "all"
    /\ categoryFilter = "all"
    /\ sortBy = "newest"
    /\ viewMounted = FALSE
    /\ fetchPc = "idle"
    /\ channelOpen = FALSE
    /\ activeChannels = 0
    /\ announced = {}
    /\ merged = {}
    /\ delivered = None
    /\ exported = None

LogConstructed ==
    /\ toasts = <<>>
    /\ trace = <<>>

AuthConstructed ==
    /\ isAuthenticated = FALSE
    /\ authLoading = TRUE
    /\ isAdmin = FALSE
    /\ adminLoading = TRUE
    /\ renderedAuth = FALSE
    /\ effects = <<"AdminRead", "AdminSync", "AuthRead">>
    /\ loginLoading = FALSE
    /\ loginPc = "idle"
    /\ signInResult = "none"
    /\ rpcResult = "none"
    /\ logoutPc = "idle"

ModalConstructed ==
    /\ location = None
    /\ photo = None
    /\ fields = NoFields
    /\ isSubmitting = FALSE
    /\ submitPc = "idle"
    /\ modalOpen = FALSE
    /\ geoPending = 0
    /\ geocodePending = 0
    /\ submitSeen = None
    /\ imageUrl = None
    /\ stored = None
    /\ inserted = <<>>
    /\ requests = 0
    /\ geoFailed = FALSE

AnalyticsConstructed ==
    /\ analyticsPc = "idle"
    /\ fetchOutcome = "none"
    /\ analyticsLoading = TRUE
    /\ monthlyData = <<>>
    /\ categoryData = <<>>
    /\ reportsByDayData = <<>>
    /\ resolutionTimeData = <<>>
    /\ locationData = <<>>

\* no dashboard is open
NoAnalytics ==
    /\ AnalyticsConstructed
    /\ dashboard = "primary"
    /\ table = <<>>

-----------------------------------------------------------------------------
(* ViewReports: fetch / subscription effect *)

\* what `select * where is_spam = false order by created_at desc` can return
IsFetchResult(s) ==
    /\ \A i \in 1..Len(s) : ~s[i].is_spam
    /\ \A i, j \in 1..Len(s) :
          i < j => getTime(s[i].created_at) > getTime(s[j].created_at)

FetchResults == { s \in SeqsUpTo(ViewRows, MaxId) : IsFetchResult(s) }

\* change events of the issues table; a DELETE payload carries no new row
PushEvents ==
    { [eventType |-> t, new |-> r] : t \in {"INSERT", "UPDATE"}, r \in ViewRows }
    \cup { [eventType |-> "DELETE", new |-> None] }

\* the effect body: fetchReports() is started and the channel subscribed
MountView ==
    /\ ~viewMounted
    /\ viewMounted' = TRUE
    /\ fetchPc' = "pending"
    /\ channelOpen' = TRUE
    /\ activeChannels' = activeChannels + 1
    /\ UNCHANGED <<announced, merged>>
    /\ delivered' = None
    /\ toasts' = <<>>
    /\ UNCHANGED <<reports, filteredReports, loading, error, searchTerm,
                   statusFilter, categoryFilter, sortBy, trace>>
    /\ UNCHANGED <<authVars, modalVars, exportVars, analyticsVars>>

\* fetchReports: the query resolved with rows
FetchResolve(data) ==
    /\ viewMounted
    /\ fetchPc = "pending"
    /\ reports' = data
    /\ filteredReports' =
          Project(data, searchTerm, statusFilter, categoryFilter, sortBy)
    /\ loading' = FALSE
    /\ fetchPc' = "done"
    /\ delivered' = None
    /\ toasts' = <<>>
    /\ UNCHANGED <<error, searchTerm, statusFilter, categoryFilter, sortBy,
                   viewMounted, channelOpen, activeChannels, announced,
                   merged, trace>>
    /\ UNCHANGED <<authVars, modalVars, exportVars, analyticsVars>>

\* `message` of the error object the query can settle with: the text of the
\* backend's answer, which may be empty
ErrorMessages == {"permission denied", ""}

\* fetchReports: the query resolved with an error
FetchReject(msg) ==
    /\ viewMounted
    /\ fetchPc = "pending"
    /\ error' = Some(msg)
    /\ loading' = FALSE
    /\ fetchPc' = "done"
    /\ delivered' = None
    /\ toasts' = <<>>
    /\ UNCHANGED <<reports, filteredReports, searchTerm, statusFilter,
                   categoryFilter, sortBy, viewMounted, channelOpen,
                   activeChannels, announced, merged, trace>>
    /\ UNCHANGED <<authVars, modalVars, exportVars, analyticsVars>>

\* what the Reports Grid renders: `loading &&`, `error &&`,
\* `!loading && !error &&` (an empty string is falsy)
SkeletonShown == loading

ErrorPanelShown == IsSome(error) /\ Get(error) # ""

ListShown == ~loading /\ ~ErrorPanelShown

\* variant: the matching element is taken out and the new row put first
ReplaceById_MoveToFront(rs, new) ==
    IF \E i \in 1..Len(rs) : rs[i].id = new.id
    THEN <<new>> \o SelectSeq(rs, LAMBDA r : r.id # new.id)
    ELSE rs

\* variant: a row that matches nothing is added
ReplaceById_Upsert(rs, new) ==
    IF \E i \in 1..Len(rs) : rs[i].id = new.id
    THEN [i \in 1..Len(rs) |-> IF rs[i].id = new.id THEN new ELSE rs[i]]
    ELSE <<new>> \o rs

\* `prev.map(report => report.id === payload.new.id ? payload.new : report)`
ReplaceById(rs, new) ==
    [i \in 1..Len(rs) |-> IF rs[i].id = new.id THEN new ELSE rs[i]]

\* variant: INSERT rows are prepended without looking at is_spam
ReportsAfter_NoSpamCheck(rs, payload) ==
    IF payload.eventType = "INSERT"
    THEN <<payload.new>> \o rs
    ELSE IF payload.eventType = "UPDATE"
         THEN ReplaceById(rs, payload.new)
         ELSE rs

\* the reports the handler leaves for a payload
ReportsAfter(rs, payload) ==
    IF payload.eventType = "INSERT" /\ ~payload.new.is_spam
    THEN <<payload.new>> \o rs
    ELSE IF payload.eventType = "UPDATE"
         THEN ReplaceById(rs, payload.new)
         ELSE rs

\* the notifications the handler raises for a payload
ToastsAfter(payload) ==
    IF payload.eventType = "INSERT" /\ ~payload.new.is_spam
    THEN <<"New Issue Reported">>
    ELSE <<>>

\* the postgres_changes callback
OnPostgresChanges(payload) ==
    /\ viewMounted
    /\ channelOpen
    /\ Len(ReportsAfter(reports, payload)) <= MaxReports
    /\ payload.eventType = "INSERT" => payload.new.id \notin announced
    /\ announced' = IF payload.eventType = "INSERT"
                    THEN announced \cup {payload.new.id}
                    ELSE announced
    /\ merged' = IF payload.eventType = "INSERT" /\ ~payload.new.is_spam
                 THEN merged \cup {payload.new.id}
                 ELSE merged
    /\ reports' = ReportsAfter(reports, payload)
    /\ filteredReports' =
          Project(reports', searchTerm, statusFilter, categoryFilter, sortBy)
    /\ toasts' = ToastsAfter(payload)
    /\ delivered' = Some(payload)
    /\ UNCHANGED <<loading, error, searchTerm, statusFilter, categoryFilter,
                   sortBy, viewMounted, fetchPc, channelOpen, activeChannels,
                   trace>>
    /\ UNCHANGED <<authVars, modalVars, exportVars, analyticsVars>>

\* variant: the cleanup leaves the channel with the client
ChannelsAfterCleanup_Leak(n) == n

\* `supabase.removeChannel(channel)`
ChannelsAfterCleanup(n) == n - 1

\* effect cleanup on unmount; the component state is discarded
UnmountView ==
    /\ viewMounted
    /\ reports' = <<>>
    /\ filteredReports' = <<>>
    /\ loading' = TRUE
    /\ error' = None
    /\ searchTerm' = <<>>
    /\ statusFilter' = "all"
    /\ categoryFilter' = "all"
    /\ sortBy' = "newest"
    /\ viewMounted' = FALSE
    /\ fetchPc' = "idle"
    /\ channelOpen' = FALSE
    /\ activeChannels' = ChannelsAfterCleanup(activeChannels)
    /\ merged' = {}
    /\ UNCHANGED announced
    /\ delivered' = None
    /\ toasts' = <<>>
    /\ UNCHANGED trace
    /\ UNCHANGED <<authVars, modalVars, exportVars, analyticsVars>>

InitView ==
    /\ ViewConstructed
    /\ LogConstructed
    /\ AuthConstructed
    /\ storage = [k \in Keys |-> None]
    /\ bootStorage = storage
    /\ session = FALSE
    /\ ModalConstructed
    /\ NoAnalytics

NextView ==
    \/ MountView
    \/ \E data \in FetchResults : FetchResolve(data)
    \/ \E msg \in ErrorMessages : FetchReject(msg)
    \/ \E payload \in PushEvents : OnPostgresChanges(payload)
    \/ UnmountView

SpecView == InitView /\ [][NextView]_vars

-----------------------------------------------------------------------------
(* ViewReports: filter controls; the filter effect reruns after each *)
Refilter ==
    filteredReports' =
        Project(reports', searchTerm', statusFilter', categoryFilter', sortBy')

ProjFrame ==
    /\ UNCHANGED <<reports, loading, error, viewMounted, fetchPc, channelOpen,
                   activeChannels, announced, merged, delivered>>
    /\ UNCHANGED <<logVars, authVars, modalVars, analyticsVars>>
    /\ exported' = None

uniqueCategories == { reports[i].category : i \in 1..Len(reports) }

SetSearchTerm(term) ==
    /\ searchTerm' = term
    /\ UNCHANGED <<statusFilter, categoryFilter, sortBy>>
    /\ ProjFrame
    /\ Refilter

SetStatusFilter(sf) ==
    /\ statusFilter' = sf
    /\ UNCHANGED <<searchTerm, categoryFilter, sortBy>>
    /\ ProjFrame
    /\ Refilter

SetCategoryFilter(cf) ==
    /\ cf = "all" \/ cf \in uniqueCategories
    /\ categoryFilter' = cf
    /\ UNCHANGED <<searchTerm, statusFilter, sortBy>>
    /\ ProjFrame
    /\ Refilter

SetSortBy(key) ==
    /\ sortBy' = key
    /\ UNCHANGED <<searchTerm, statusFilter, categoryFilter>>
    /\ ProjFrame
    /\ Refilter

\* the Clear button
ClearFilters ==
    /\ searchTerm' = <<>>
    /\ statusFilter' = "all"
    /\ categoryFilter' = "all"
    /\ sortBy' = "newest"
    /\ ProjFrame
    /\ Refilter

\* `new Date(created_at).toLocaleString()`, date part in the en-US form m/d/y
LocaleString(d) == <<d[2], d[3], d[1]>>

\* one sheet row of handleExport (the columns of the modelled issue fields)
ExportRow(report) ==
    [ID |-> report.id, Title |-> report.title,
     Description |-> report.description, Category |-> report.category,
     Status |-> report.status, CreatedAt |-> LocaleString(report.created_at),
     Location |-> report.location_name,
     Upvotes |-> OrZero(report.upvotes_count),
     PriorityScore |-> OrZero(report.priority_score)]

\* variant: the sheet is built from the base collection
ExportSource_Reports == reports

\* the collection handleExport reads
ExportSource == filteredReports

\* the Export button
handleExport ==
    /\ IF Len(ExportSource) = 0
       THEN /\ toasts' = <<"No Data to Export">>
            /\ exported' = Some([files |-> <<>>, announced |-> None])
       ELSE /\ toasts' = <<"Export Successful">>
            /\ exported' =
                  Some([files |-> << [i \in 1..Len(ExportSource) |->
                                        ExportRow(ExportSource[i])] >>,
                        announced |-> Some(Len(ExportSource))])
    /\ UNCHANGED <<viewVars, trace, authVars, modalVars, analyticsVars>>

\* a mounted view whose fetch has resolved, holding any base collection
InitProj ==
    /\ reports \in SeqsUpTo(ProjRows, MaxBase)
    /\ filteredReports = Project(reports, <<>>, "all", "all", "newest")
    /\ loading = FALSE
    /\ error = None
    /\ searchTerm = <<>>
    /\ statusFilter = "all"
    /\ categoryFilter = "all"
    /\ sortBy = "newest"
    /\ viewMounted = TRUE
    /\ fetchPc = "done"
    /\ channelOpen = TRUE
    /\ activeChannels = 1
    /\ announced = {}
    /\ merged = {}
    /\ delivered = None
    /\ exported = None
    /\ LogConstructed
    /\ AuthConstructed
    /\ storage = [k \in Keys |-> None]
    /\ bootStorage = storage
    /\ session = FALSE
    /\ ModalConstructed
    /\ NoAnalytics

NextProj ==
    \/ \E term \in SearchTerms : SetSearchTerm(term)
    \/ \E sf \in StatusFilters : SetStatusFilter(sf)
    \/ \E cf \in CategoryFilters : SetCategoryFilter(cf)
    \/ \E key \in SortKeys : SetSortBy(key)
    \/ ClearFilters
    \/ handleExport

SpecProj == InitProj /\ [][NextProj]_vars


-----------------------------------------------------------------------------
(* Session / role mirror: AuthProvider and AdminProvider                   *)
(*                                                                         *)
(* React runs the effects of a commit in order, children before parents:   *)
(* AdminProvider (which consumes useAuth) is rendered inside AuthProvider. *)
(* An effect closure sees the isAuthenticated of the render that created   *)
(* it (renderedAuth). State updates are committed before the next handler  *)
(* or continuation runs: handlers act only when no effect is pending.      *)

StoredValues == {None, Some("true"), Some("false"), Some("junk")}

Quiescent == effects = <<>> /\ renderedAuth = isAuthenticated

\* localStorage.setItem / removeItem
setItem(st, k, v) == [st EXCEPT ![k] = Some(v)]
removeItem(st, k) == [st EXCEPT ![k] = None]

\* AuthProvider.login / logout: storage written by each
StorageAfterLogin(st) == setItem(st, "isAuthenticated", "true")

\* variant: logout leaves the stored flag in place
StorageAfterLogout_KeepKey(st) == st

StorageAfterLogout(st) == removeItem(st, "isAuthenticated")

\* AdminProvider.setAsAdmin / unsetAsAdmin: storage written by each
StorageAfterSetAsAdmin(st) == setItem(st, "isAdmin", "true")
StorageAfterUnsetAsAdmin(st) == removeItem(st, "isAdmin")

\* AdminProvider startup effect: JSON.parse of the stored flag
\* (None: nothing is set, either no value or JSON.parse threw)
ParsedIsAdmin(v) ==
    IF v = Some("true") THEN Some(TRUE)
    ELSE IF v = Some("false") THEN Some(FALSE)
    ELSE None

EffAdminRead ==
    /\ effects # <<>> /\ Head(effects) = "AdminRead"
    /\ isAdmin' = IF IsSome(ParsedIsAdmin(storage["isAdmin"]))
                  THEN Get(ParsedIsAdmin(storage["isAdmin"]))
                  ELSE isAdmin
    /\ adminLoading' = FALSE
    /\ effects' = Tail(effects)
    /\ UNCHANGED <<storage, isAuthenticated, authLoading, renderedAuth,
                   bootStorage, session, loginLoading, loginPc, signInResult,
                   rpcResult, logoutPc>>
    /\ UNCHANGED <<viewVars, logVars, modalVars, exportVars, analyticsVars>>

\* variant: the sync effect does nothing
SyncUnsets_Never(auth) == FALSE

\* AdminProvider sync effect: does it call unsetAsAdmin()
SyncUnsets(auth) == ~auth

EffAdminSync ==
    /\ effects # <<>> /\ Head(effects) = "AdminSync"
    /\ IF SyncUnsets(renderedAuth)
       THEN /\ isAdmin' = FALSE
            /\ storage' = StorageAfterUnsetAsAdmin(storage)
       ELSE UNCHANGED <<isAdmin, storage>>
    /\ effects' = Tail(effects)
    /\ UNCHANGED <<isAuthenticated, authLoading, adminLoading, renderedAuth,
                   bootStorage, session, loginLoading, loginPc, signInResult,
                   rpcResult, logoutPc>>
    /\ UNCHANGED <<viewVars, logVars, modalVars, exportVars, analyticsVars>>

\* AuthProvider startup effect
EffAuthRead ==
    /\ effects # <<>> /\ Head(effects) = "AuthRead"
    /\ isAuthenticated' = IF storage["isAuthenticated"] = Some("true")
                          THEN TRUE ELSE isAuthenticated
    /\ authLoading' = FALSE
    /\ effects' = Tail(effects)
    /\ UNCHANGED <<storage, isAdmin, adminLoading, renderedAuth, bootStorage,
                   session, loginLoading, loginPc, signInResult, rpcResult,
                   logoutPc>>
    /\ UNCHANGED <<viewVars, logVars, modalVars, exportVars, analyticsVars>>

\* re-render after isAuthenticated changed: the sync effect's dependency
\* [isAuthenticated] changed, so it is scheduled again
Commit ==
    /\ effects = <<>>
    /\ renderedAuth # isAuthenticated
    /\ renderedAuth' = isAuthenticated
    /\ effects' = <<"AdminSync">>
    /\ UNCHANGED <<storage, isAuthenticated, authLoading, isAdmin,
                   adminLoading, bootStorage, session, loginLoading, loginPc,
                   signInResult, rpcResult, logoutPc>>
    /\ UNCHANGED <<viewVars, logVars, modalVars, exportVars, analyticsVars>>

\* page reload: the providers are constructed again, localStorage and the
\* backend session persist, handlers in flight are gone
Reload ==
    /\ isAuthenticated' = FALSE
    /\ authLoading' = TRUE
    /\ isAdmin' = FALSE
    /\ adminLoading' = TRUE
    /\ renderedAuth' = FALSE
    /\ effects' = <<"AdminRead", "AdminSync", "AuthRead">>
    /\ loginLoading' = FALSE
    /\ loginPc' = "idle"
    /\ signInResult' = "none"
    /\ rpcResult' = "none"
    /\ logoutPc' = "idle"
    /\ bootStorage' = storage
    /\ toasts' = <<>>
    /\ trace' = <<>>
    /\ UNCHANGED <<storage, session>>
    /\ UNCHANGED <<viewVars, modalVars, exportVars, analyticsVars>>

-----------------------------------------------------------------------------
(* What the routed components render from the AuthProvider's values *)
\* variant: the authentication test comes before the loading test
ProtectedRoute_RedirectFirst(pending, authenticated) ==
    IF ~authenticated THEN "Navigate:/admin-login"
    ELSE IF pending THEN "Loading..."
    ELSE "children"

ProtectedRoute(pending, authenticated) ==
    IF pending THEN "Loading..."
    ELSE IF ~authenticated THEN "Navigate:/admin-login"
    ELSE "children"

\* AdminAuth's return value: the placeholder or the login form
AdminAuth(pending, authenticated) ==
    IF pending \/ authenticated THEN "Loading..." ELSE "form"

\* AdminAuth's redirect effect: does it call navigate("/admin")
NavigatesToAdmin(pending, authenticated) == ~pending /\ authenticated

-----------------------------------------------------------------------------
(* AdminAuth.handleLogin *)
SignInResults == {"error", "nouser", "user"}
RpcResults == {"error", "true", "false"}

\* the login form is rendered and enabled
LoginFormEnabled ==
    AdminAuth(authLoading, isAuthenticated) = "form" /\ ~loginLoading

StartLogin ==
    /\ Quiescent
    /\ LoginFormEnabled
    /\ loginPc = "idle"
    /\ logoutPc = "idle"
    /\ loginLoading' = TRUE
    /\ loginPc' = "signIn"
    /\ signInResult' = "none"
    /\ rpcResult' = "none"
    /\ trace' = <<"signInWithPassword">>
    /\ toasts' = <<>>
    /\ UNCHANGED <<storage, isAuthenticated, authLoading, isAdmin,
                   adminLoading, renderedAuth, bootStorage, effects, session,
                   logoutPc>>
    /\ UNCHANGED <<viewVars, modalVars, exportVars, analyticsVars>>

\* variant: only authError is checked, not authData.user
SignInPasses_NoUserCheck(res) == res # "error"

\* neither `if (authError)` nor `if (!authData.user)` throws
SignInPasses(res) == res = "user"

SignInReturns(res) ==
    /\ Quiescent
    /\ loginPc = "signIn"
    /\ signInResult' = res
    /\ session' = (IF res = "user" THEN TRUE ELSE session)
    /\ IF SignInPasses(res)
       THEN /\ loginPc' = "rpc"
            /\ trace' = Append(trace, "rpc:is_admin")
            /\ UNCHANGED <<toasts, loginLoading>>
       ELSE /\ toasts' = Append(toasts, "Authentication Failed")
            /\ loginLoading' = FALSE
            /\ loginPc' = "idle"
            /\ UNCHANGED trace
    /\ UNCHANGED <<storage, isAuthenticated, authLoading, isAdmin,
                   adminLoading, renderedAuth, bootStorage, effects, rpcResult,
                   logoutPc>>
    /\ UNCHANGED <<viewVars, modalVars, exportVars, analyticsVars>>

\* variant: any result without rpcError counts as admin
RoleGranted_AnyData(res) == res # "error"

\* `if (isAdmin)` after the rpcError check
RoleGranted(res) == res = "true"

RpcReturns(res) ==
    /\ Quiescent
    /\ loginPc = "rpc"
    /\ rpcResult' = res
    /\ IF res = "error"
       THEN /\ toasts' = Append(toasts, "Authentication Failed")
            /\ loginLoading' = FALSE
            /\ loginPc' = "idle"
            /\ UNCHANGED <<trace, storage, isAuthenticated, isAdmin>>
       ELSE IF RoleGranted(res)
       THEN /\ storage' = StorageAfterSetAsAdmin(StorageAfterLogin(storage))
            /\ isAuthenticated' = TRUE
            /\ isAdmin' = TRUE
            /\ trace' = trace \o <<"login", "setAsAdmin">>
            /\ toasts' = Append(toasts, "Login Successful")
            /\ loginLoading' = FALSE
            /\ loginPc' = "idle"
       ELSE /\ loginPc' = "signOut"
            /\ trace' = Append(trace, "signOut")
            /\ UNCHANGED <<toasts, loginLoading, storage, isAuthenticated,
                           isAdmin>>
    /\ UNCHANGED <<authLoading, adminLoading, renderedAuth, bootStorage,
                   effects, session, signInResult, logoutPc>>
    /\ UNCHANGED <<viewVars, modalVars, exportVars, analyticsVars>>

\* `await supabase.auth.signOut()` settled, then the throw and its catch
LoginSignOutReturns(ok) ==
    /\ Quiescent
    /\ loginPc = "signOut"
    /\ session' = (IF ok THEN FALSE ELSE session)
    /\ toasts' = Append(toasts, "Authentication Failed")
    /\ loginLoading' = FALSE
    /\ loginPc' = "idle"
    /\ UNCHANGED <<storage, isAuthenticated, authLoading, isAdmin,
                   adminLoading, renderedAuth, bootStorage, effects,
                   signInResult, rpcResult, logoutPc, trace>>
    /\ UNCHANGED <<viewVars, modalVars, exportVars, analyticsVars>>

-----------------------------------------------------------------------------
(* UserMenu.handleLogout; the menu is rendered inside the protected page *)
StartLogout ==
    /\ Quiescent
    /\ ProtectedRoute(authLoading, isAuthenticated) = "children"
    /\ logoutPc = "idle"
    /\ loginPc = "idle"
    /\ logoutPc' = "signOut"
    /\ trace' = <<"signOut">>
    /\ toasts' = <<>>
    /\ UNCHANGED <<storage, isAuthenticated, authLoading, isAdmin,
                   adminLoading, renderedAuth, bootStorage, effects, session,
                   loginLoading, loginPc, signInResult, rpcResult>>
    /\ UNCHANGED <<viewVars, modalVars, exportVars, analyticsVars>>

\* variant: the handler navigates before it calls logout()
LogoutCalls_NavigateFirst == <<"navigate:/admin-login", "logout">>

\* the calls handleLogout makes once the awaited sign-out has resolved
LogoutCalls == <<"logout", "navigate:/admin-login">>

LogoutSignOutReturns(ok) ==
    /\ Quiescent
    /\ logoutPc = "signOut"
    /\ session' = (IF ok THEN FALSE ELSE session)
    /\ storage' = StorageAfterLogout(storage)
    /\ isAuthenticated' = FALSE
    /\ trace' = trace \o LogoutCalls
    /\ logoutPc' = "idle"
    /\ UNCHANGED <<authLoading, isAdmin, adminLoading, renderedAuth,
                   bootStorage, effects, loginLoading, loginPc, signInResult,
                   rpcResult, toasts>>
    /\ UNCHANGED <<viewVars, modalVars, exportVars, analyticsVars>>

InitAuth ==
    /\ ViewConstructed
    /\ LogConstructed
    /\ AuthConstructed
    /\ storage \in [Keys -> StoredValues]
    /\ bootStorage = storage
    /\ session \in BOOLEAN
    /\ ModalConstructed
    /\ NoAnalytics

NextAuth ==
    \/ EffAdminRead
    \/ EffAdminSync
    \/ EffAuthRead
    \/ Commit
    \/ Reload
    \/ StartLogin
    \/ \E res \in SignInResults : SignInReturns(res)
    \/ \E res \in RpcResults : RpcReturns(res)
    \/ \E ok \in BOOLEAN : LoginSignOutReturns(ok)
    \/ StartLogout
    \/ \E ok \in BOOLEAN : LogoutSignOutReturns(ok)

SpecAuth == InitAuth /\ [][NextAuth]_vars

-----------------------------------------------------------------------------
(* ReportModal *)
Unavailable == "Location unavailable"
LocationNames == {"Springfield", "Unknown location"}
PhotoFiles == {"photo.jpg"}

ModalFrame ==
    /\ UNCHANGED <<viewVars, authVars, exportVars, analyticsVars>>

\* variant: the sentinel counts as no location
LookupWanted_SentinelToo == location = None \/ location = Some(Unavailable)

\* the effect's `!location`
LookupWanted == location = None

\* the parent sets isOpen; the geolocation effect runs when isOpen && !location
OpenModal ==
    /\ ~modalOpen
    /\ modalOpen' = TRUE
    /\ IF LookupWanted
       THEN /\ geoPending + geocodePending < MaxGeo
            /\ geoPending' = geoPending + 1
       ELSE UNCHANGED geoPending
    /\ submitSeen' = None
    /\ UNCHANGED <<location, photo, fields, isSubmitting, submitPc,
                   geocodePending, logVars>>
    /\ UNCHANGED <<imageUrl, stored, inserted, requests, geoFailed>>
    /\ ModalFrame

\* onClose: the Cancel button (disabled while submitting) or the dialog's
\* onOpenChange
CloseModal ==
    /\ modalOpen
    /\ modalOpen' = FALSE
    /\ submitSeen' = None
    /\ UNCHANGED <<location, photo, fields, isSubmitting, submitPc,
                   geoPending, geocodePending, logVars>>
    /\ UNCHANGED <<imageUrl, stored, inserted, requests, geoFailed>>
    /\ ModalFrame

\* getCurrentPosition success callback up to its `await fetch`
GeoPosition ==
    /\ geoPending > 0
    /\ geoPending' = geoPending - 1
    /\ geocodePending' = geocodePending + 1
    /\ submitSeen' = None
    /\ UNCHANGED <<location, photo, fields, isSubmitting, submitPc, modalOpen,
                   logVars>>
    /\ UNCHANGED <<imageUrl, stored, inserted, requests, geoFailed>>
    /\ ModalFrame

\* the reverse-geocode fetch settled: a locality name, or None if it threw
GeocodeReturns(name) ==
    /\ geocodePending > 0
    /\ geocodePending' = geocodePending - 1
    /\ location' = IF IsSome(name) THEN name ELSE Some("Current location")
    /\ submitSeen' = None
    /\ UNCHANGED <<photo, fields, isSubmitting, submitPc, modalOpen,
                   geoPending, logVars>>
    /\ UNCHANGED <<imageUrl, stored, inserted, requests, geoFailed>>
    /\ ModalFrame

\* getCurrentPosition error callback
GeoError ==
    /\ geoPending > 0
    /\ geoPending' = geoPending - 1
    /\ toasts' = <<"Location Access Required">>
    /\ location' = Some(Unavailable)
    /\ submitSeen' = None
    /\ UNCHANGED <<photo, fields, isSubmitting, submitPc, modalOpen,
                   geocodePending, trace>>
    /\ geoFailed' = TRUE
    /\ UNCHANGED <<imageUrl, stored, inserted, requests>>
    /\ ModalFrame

\* onChange of a text input or of the category select
SetField(f, filled) ==
    /\ modalOpen
    /\ fields' = [fields EXCEPT ![f] = filled]
    /\ submitSeen' = None
    /\ UNCHANGED <<location, photo, isSubmitting, submitPc, modalOpen,
                   geoPending, geocodePending, logVars>>
    /\ UNCHANGED <<imageUrl, stored, inserted, requests, geoFailed>>
    /\ ModalFrame

\* handlePhotoChange: `if (file) setPhoto(file)`
handlePhotoChange(file) ==
    /\ modalOpen
    /\ photo' = IF IsSome(file) THEN file ELSE photo
    /\ submitSeen' = None
    /\ UNCHANGED <<location, fields, isSubmitting, submitPc, modalOpen,
                   geoPending, geocodePending, logVars>>
    /\ UNCHANGED <<imageUrl, stored, inserted, requests, geoFailed>>
    /\ ModalFrame

\* the Remove button of the photo preview
RemovePhoto ==
    /\ modalOpen
    /\ photo # None
    /\ photo' = None
    /\ submitSeen' = None
    /\ UNCHANGED <<location, fields, isSubmitting, submitPc, modalOpen,
                   geoPending, geocodePending, logVars>>
    /\ UNCHANGED <<imageUrl, stored, inserted, requests, geoFailed>>
    /\ ModalFrame

\* variant: the required fields are checked before the photo
Validate_FieldsBeforePhoto(loc, ph, fl) ==
    IF loc = None \/ loc = Some(Unavailable) THEN Some("Location Required")
    ELSE IF \E f \in FieldNames : ~fl[f] THEN Some("Missing Information")
    ELSE IF ph = None THEN Some("Photo Required")
    ELSE None

\* handleSubmit's checks: the notification of the first failing one, or None
Validate(loc, ph, fl) ==
    IF loc = None \/ loc = Some(Unavailable) THEN Some("Location Required")
    ELSE IF ph = None THEN Some("Photo Required")
    ELSE IF ~fl["title"] \/ ~fl["category"] \/ ~fl["description"]
            \/ ~fl["streetAddress"] \/ ~fl["landmark"]
         THEN Some("Missing Information")
    ELSE None

\* the submit button is `disabled={isSubmitting}`
SubmitEnabled_Always == TRUE

SubmitEnabled == ~isSubmitting

\* `${Date.now()}.${fileExt}`: every file of PhotoFiles has the extension jpg
ObjectName == <<"Date.now", "jpg">>

\* storage.from('issues').getPublicUrl(fileName).data.publicUrl
PublicUrl(name) == <<"issues", name>>

\* the object handed to from('issues').insert
NewIssue(url) == [status |-> "new", image_url |-> url]

\* handleSubmit up to its first await
handleSubmit ==
    /\ modalOpen
    /\ SubmitEnabled
    /\ submitSeen' = Some([location |-> location, photo |-> photo,
                           fields |-> fields])
    /\ IF IsSome(Validate(location, photo, fields))
       THEN /\ toasts' = <<Get(Validate(location, photo, fields))>>
            /\ trace' = <<>>
            /\ UNCHANGED <<isSubmitting, submitPc, imageUrl, stored, inserted,
                           requests>>
       ELSE /\ isSubmitting' = TRUE
            /\ submitPc' = "upload"
            /\ trace' = <<"upload">>
            /\ toasts' = <<>>
            /\ imageUrl' = None
            /\ stored' = None
            /\ inserted' = <<>>
            /\ requests' = requests + 1
    /\ UNCHANGED <<location, photo, fields, modalOpen, geoPending,
                   geocodePending>>
    /\ UNCHANGED geoFailed
    /\ ModalFrame

\* variant: the catch block leaves the flag set
SubmittingAfter_CatchKeeps(failed) == failed

\* isSubmitting once the try block has ended: setIsSubmitting(false) closes
\* the success path and the catch block
SubmittingAfter(failed) == FALSE

\* variant: an upload error is not thrown
UploadThrows_Never(ok) == FALSE

\* `if (uploadError) throw uploadError`
UploadThrows(ok) == ~ok

\* storage upload settled
UploadReturns(ok) ==
    /\ submitPc = "upload"
    /\ requests > 0
    /\ stored' = IF ok THEN Some(ObjectName) ELSE stored
    /\ IF UploadThrows(ok)
       THEN /\ toasts' = Append(toasts, "Submission Failed")
            /\ isSubmitting' = SubmittingAfter(TRUE)
            /\ submitPc' = "idle"
            /\ requests' = requests - 1
            /\ UNCHANGED <<trace, imageUrl>>
       ELSE /\ trace' = trace \o <<"getPublicUrl", "insert">>
            /\ imageUrl' = Some(PublicUrl(ObjectName))
            /\ submitPc' = "insert"
            /\ UNCHANGED <<toasts, isSubmitting, requests>>
    /\ submitSeen' = None
    /\ UNCHANGED <<location, photo, fields, modalOpen, geoPending,
                   geocodePending, inserted>>
    /\ UNCHANGED geoFailed
    /\ ModalFrame

\* row insert settled
InsertReturns(ok) ==
    /\ submitPc = "insert"
    /\ requests > 0
    /\ IF ok
       THEN /\ inserted' = Append(inserted, NewIssue(imageUrl))
            /\ toasts' = Append(toasts, "Report Submitted!")
            /\ fields' = NoFields
            /\ photo' = None
            /\ location' = None
            /\ modalOpen' = FALSE
       ELSE /\ toasts' = Append(toasts, "Submission Failed")
            /\ UNCHANGED <<fields, photo, location, modalOpen, inserted>>
    /\ isSubmitting' = SubmittingAfter(~ok)
    /\ submitPc' = "idle"
    /\ requests' = requests - 1
    /\ submitSeen' = None
    /\ UNCHANGED <<geoPending, geocodePending, trace, imageUrl, stored>>
    /\ UNCHANGED geoFailed
    /\ ModalFrame

InitSubmit ==
    /\ ViewConstructed
    /\ LogConstructed
    /\ AuthConstructed
    /\ storage = [k \in Keys |-> None]
    /\ bootStorage = storage
    /\ session = FALSE
    /\ ModalConstructed
    /\ NoAnalytics

NextSubmit ==
    \/ OpenModal
    \/ CloseModal
    \/ GeoPosition
    \/ \E name \in {None} \cup { Some(n) : n \in LocationNames } :
          GeocodeReturns(name)
    \/ GeoError
    \/ \E f \in FieldNames, filled \in BOOLEAN : SetField(f, filled)
    \/ \E file \in {None} \cup { Some(n) : n \in PhotoFiles } :
          handlePhotoChange(file)
    \/ RemovePhoto
    \/ handleSubmit
    \/ \E ok \in BOOLEAN : UploadReturns(ok)
    \/ \E ok \in BOOLEAN : InsertReturns(ok)

SpecSubmit == InitSubmit /\ [][NextSubmit]_vars

-----------------------------------------------------------------------------
(* The two asynchronous handlers, handleSubmit and handleLogin, from the    *)
(* states their forms can be in: the dialog is open after its location      *)
(* lookup has settled, the providers are freshly constructed on a first     *)
(* visit. Every awaited request settles, with or without an error.          *)
FilledFields == [f \in FieldNames |-> TRUE]

InitHandlers ==
    /\ ViewConstructed
    /\ LogConstructed
    /\ AuthConstructed
    /\ storage = [k \in Keys |-> None]
    /\ bootStorage = storage
    /\ session = FALSE
    /\ NoAnalytics
    /\ modalOpen = TRUE
    /\ location \in {Some(Unavailable)} \cup { Some(n) : n \in LocationNames }
    /\ geoFailed = (location = Some(Unavailable))
    /\ photo \in {None} \cup { Some(n) : n \in PhotoFiles }
    /\ fields \in {NoFields, FilledFields}
    /\ isSubmitting = FALSE
    /\ submitPc = "idle"
    /\ geoPending = 0
    /\ geocodePending = 0
    /\ submitSeen = None
    /\ imageUrl = None
    /\ stored = None
    /\ inserted = <<>>
    /\ requests = 0

NextHandlers ==
    \/ handleSubmit
    \/ \E ok \in BOOLEAN : UploadReturns(ok)
    \/ \E ok \in BOOLEAN : InsertReturns(ok)
    \/ EffAdminRead
    \/ EffAdminSync
    \/ EffAuthRead
    \/ Commit
    \/ StartLogin
    \/ \E res \in SignInResults : SignInReturns(res)
    \/ \E res \in RpcResults : RpcReturns(res)
    \/ \E ok \in BOOLEAN : LoginSignOutReturns(ok)

RequestsSettle ==
    /\ WF_vars(\E ok \in BOOLEAN : UploadReturns(ok))
    /\ WF_vars(\E ok \in BOOLEAN : InsertReturns(ok))
    /\ WF_vars(\E res \in SignInResults : SignInReturns(res))
    /\ WF_vars(\E res \in RpcResults : RpcReturns(res))
    /\ WF_vars(\E ok \in BOOLEAN : LoginSignOutReturns(ok))

SpecHandlers == InitHandlers /\ [][NextHandlers]_vars /\ RequestsSettle

-----------------------------------------------------------------------------
(* Analytics dashboards: the aggregations of AnalyticsContent.              *)
(* A plain object used as a map is the sequence of its own buckets in       *)
(* insertion order, which is the order of Object.values / Object.keys.      *)
Issue(created, status, category, loc, resolved) ==
    [created_at |-> created, status |-> status, category |-> category,
     location_name |-> loc, resolved_at |-> resolved]

\* members every `{}` inherits: `acc[k]` is truthy for them without an own
\* bucket, and an update through `acc[k]` lands on the inherited member
ObjectPrototypeNames ==
    {"constructor", "toString", "valueOf", "hasOwnProperty",
     "isPrototypeOf", "propertyIsEnumerable", "toLocaleString"}

\* index of the own bucket stored under key k, or 0
Slot(keys, k) ==
    IF \E i \in 1..Len(keys) : keys[i] = k
    THEN CHOOSE i \in 1..Len(keys) : keys[i] = k
    ELSE 0

MonthShort ==
    <<"Jan", "Feb", "Mar", "Apr", "May", "Jun", "Jul", "Aug", "Sep", "Oct",
      "Nov", "Dec">>

\* variant: the label carries no year
formatMonth_NoYear(d) == <<MonthShort[d[2]], 0>>

\* toLocaleString('default', { month: 'short', year: '2-digit' })
formatMonth(d) == <<MonthShort[d[2]], d[1] % 100>>

\* variant: weekdays numbered from Monday
getDay_MondayFirst(d) == ((getTime(d) \div 24) + 3) % 7

\* Date.prototype.getDay: 0 is Sunday; 1970-01-01 was a Thursday
getDay(d) == ((getTime(d) \div 24) + 4) % 7

daysOfWeek == <<"Sun", "Mon", "Tue", "Wed", "Thu", "Fri", "Sat">>

COLORS ==
    <<"#0088FE", "#00C49F", "#FFBB28", "#FF8042", "#AF19FF", "#FF1943">>

\* the argument of `.slice(0, 10)`
TopLocations == 10

\* Array.prototype.sort((a, b) => b.count - a.count): stable
RECURSIVE InsertByCount(_, _)
InsertByCount(sorted, b) ==
    IF sorted = <<>> THEN <<b>>
    ELSE IF Head(sorted).count >= b.count
         THEN <<Head(sorted)>> \o InsertByCount(Tail(sorted), b)
         ELSE <<b>> \o sorted

RECURSIVE SortByCount(_)
SortByCount(buckets) ==
    IF buckets = <<>> THEN <<>>
    ELSE InsertByCount(SortByCount(SubSeq(buckets, 1, Len(buckets) - 1)),
                       buckets[Len(buckets)])

slice(s, n) == SubSeq(s, 1, IF Len(s) < n THEN Len(s) ELSE n)

processMonthlyReports(issues) ==
    LET Step(acc, issue) ==
            LET k == formatMonth(issue.created_at)
                i == Slot([j \in 1..Len(acc) |-> acc[j].month], k)
                r == IF issue.status = "resolved" THEN 1 ELSE 0
            IN  IF i = 0
                THEN Append(acc, [month |-> k, total |-> 1, resolved |-> r])
                ELSE [acc EXCEPT ![i].total = @ + 1, ![i].resolved = @ + r]
        data[n \in 0..Len(issues)] ==
            IF n = 0 THEN <<>> ELSE Step(data[n - 1], issues[n])
    IN  data[Len(issues)]

\* `COLORS[index % COLORS.length]` for the 0-based rank index
PaletteIndex(index) == (index % Len(COLORS)) + 1

\* category counts in insertion order (both dashboards)
CountCategories(issues) ==
    LET Step(acc, issue) ==
            LET k == issue.category
                i == Slot([j \in 1..Len(acc) |-> acc[j].name], k)
            IN  IF i > 0 THEN [acc EXCEPT ![i].count = @ + 1]
                ELSE IF k \in ObjectPrototypeNames THEN acc
                ELSE Append(acc, [name |-> k, count |-> 1])
        data[n \in 0..Len(issues)] ==
            IF n = 0 THEN <<>> ELSE Step(data[n - 1], issues[n])
    IN  data[Len(issues)]

\* primary dashboard: sorted by count, coloured by rank
processCategoryDistribution(issues) ==
    LET sorted == SortByCount(CountCategories(issues))
    IN  [i \in 1..Len(sorted) |->
            [name |-> sorted[i].name, count |-> sorted[i].count,
             fill |-> COLORS[PaletteIndex(i - 1)]]]

\* second dashboard: insertion order, no colour
processCategoryDistributionPlain(issues) ==
    LET counted == CountCategories(issues)
    IN  [i \in 1..Len(counted) |->
            [category |-> counted[i].name, count |-> counted[i].count]]

processReportsByDay(issues) ==
    LET Step(acc, issue) ==
            LET k == daysOfWeek[getDay(issue.created_at) + 1]
                i == Slot([j \in 1..Len(acc) |-> acc[j].day], k)
            IN  IF i = 0 THEN Append(acc, [day |-> k, count |-> 1])
                ELSE [acc EXCEPT ![i].count = @ + 1]
        data[n \in 0..Len(issues)] ==
            IF n = 0 THEN <<>> ELSE Step(data[n - 1], issues[n])
        final == data[Len(issues)]
        Of(day) == Slot([j \in 1..Len(final) |-> final[j].day], day)
    IN  [d \in 1..Len(daysOfWeek) |->
            IF Of(daysOfWeek[d]) > 0 THEN final[Of(daysOfWeek[d])]
            ELSE [day |-> daysOfWeek[d], count |-> 0]]

\* variant: resolved_at is not looked at
Contributes_AnyResolved(issue) == issue.status = "resolved"

\* the filter of processResolutionTimes
Contributes(issue) == issue.status = "resolved" /\ IsSome(issue.resolved_at)

\* avg_time_hours is the quotient total_time / count, kept as the pair of
\* its numerator and denominator (hours are whole numbers here)
processResolutionTimes(issues) ==
    LET Hours(issue) ==
            IF IsSome(issue.resolved_at)
            THEN getTime(Get(issue.resolved_at)) - getTime(issue.created_at)
            ELSE 0 - getTime(issue.created_at)
        Step(acc, issue) ==
            LET k == issue.category
                i == Slot([j \in 1..Len(acc) |-> acc[j].category], k)
            IN  IF ~Contributes(issue) THEN acc
                ELSE IF i > 0
                     THEN [acc EXCEPT ![i].total_time = @ + Hours(issue),
                                      ![i].count = @ + 1]
                ELSE IF k \in ObjectPrototypeNames THEN acc
                ELSE Append(acc, [category |-> k, total_time |-> Hours(issue),
                                  count |-> 1])
        data[n \in 0..Len(issues)] ==
            IF n = 0 THEN <<>> ELSE Step(data[n - 1], issues[n])
        final == data[Len(issues)]
    IN  [i \in 1..Len(final) |->
            [category |-> final[i].category,
             avg_time_hours |-> [num |-> final[i].total_time,
                                 den |-> final[i].count]]]

\* `issue.location_name || 'Unknown'`
LocationKey(issue) ==
    IF IsSome(issue.location_name) /\ Get(issue.location_name) # ""
    THEN Get(issue.location_name)
    ELSE "Unknown"

\* variant: the list is cut before it is sorted
Hotspots_SliceFirst(buckets) == SortByCount(slice(buckets, TopLocations))

\* `.sort((a, b) => b.count - a.count).slice(0, 10)`
Hotspots(buckets) == slice(SortByCount(buckets), TopLocations)

CountLocations(issues) ==
    LET Step(acc, issue) ==
            LET k == LocationKey(issue)
                i == Slot([j \in 1..Len(acc) |-> acc[j].location], k)
            IN  IF i > 0 THEN [acc EXCEPT ![i].count = @ + 1]
                ELSE IF k \in ObjectPrototypeNames THEN acc
                ELSE Append(acc, [location |-> k, count |-> 1])
        data[n \in 0..Len(issues)] ==
            IF n = 0 THEN <<>> ELSE Step(data[n - 1], issues[n])
    IN  data[Len(issues)]

processLocationHotspots(issues) == Hotspots(CountLocations(issues))

-----------------------------------------------------------------------------
(* Analytics dashboards: the issues table and the fetch-on-mount effect *)
issueCategories ==
    <<"Pothole", "Broken Streetlight", "Overflowing Trash Bin", "Graffiti",
      "Damaged Public Property", "Water Leak", "Sidewalk Damage",
      "Traffic Signal Issue", "Other">>

\* issues written through the submission form and resolved by the staff
AnalyticsRows ==
    { Issue(<<2024, 1, 5>>, "new", "Pothole", None, None),
      Issue(<<2024, 1, 10>>, "resolved", "Pothole", None,
            Some(<<2024, 1, 12>>)),
      Issue(<<2024, 1, 5>>, "resolved", "Pothole", Some("Springfield"),
            Some(<<2024, 1, 6>>)),
      Issue(<<2024, 1, 10>>, "resolved", "Pothole", None, None),
      Issue(<<2024, 1, 5>>, "in_progress", "Pothole", None,
            Some(<<2024, 1, 6>>)),
      Issue(<<2023, 12, 31>>, "resolved", "Other", Some("Shelbyville"),
            Some(<<2024, 1, 5>>)),
      Issue(<<2024, 2, 29>>, "new", "Other", Some("Springfield"), None),
      Issue(<<2023, 1, 7>>, "new", "Graffiti", Some("Shelbyville"), None) }

Wards ==
    <<"Ward 1", "Ward 2", "Ward 3", "Ward 4", "Ward 5", "Ward 6", "Ward 7",
      "Ward 8", "Ward 9", "Ward 10", "Ward 11", "Ward 12">>

WardIssue(w) ==
    Issue(<<2024, 3, w>>, "new",
          issueCategories[((w - 1) % Len(issueCategories)) + 1],
          Some(Wards[w]), None)

\* one issue in each of the first eleven wards
Spread == [w \in 1..(TopLocations + 1) |-> WardIssue(w)]

\* further issues of a town that has more localities than the hotspot list
BoostRows ==
    { WardIssue(1), WardIssue(TopLocations + 1), WardIssue(TopLocations + 2),
      Issue(<<2024, 3, 1>>, "new", "Other", None, None) }

Tables ==
    SeqsUpTo(AnalyticsRows, MaxIssues)
        \cup { Spread \o more : more \in SeqsUpTo(BoostRows, MaxBoost) }

\* categories written past the form: any text at all
CategoryRows ==
    { Issue(<<2024, 1, 5>>, "new", c, None, None) :
        c \in {"Pothole", "Zebra crossing", "constructor"} }

CategoryTables == SeqsUpTo(CategoryRows, MaxIssues) \cup {Spread}

Dashboards == {"primary", "second"}

AnalyticsFrame ==
    UNCHANGED <<viewVars, exportVars, logVars, authVars, modalVars>>

\* useEffect(() => { fetchData() }, []) up to the await
MountAnalytics ==
    /\ analyticsPc = "idle"
    /\ analyticsLoading' = TRUE
    /\ analyticsPc' = "pending"
    /\ UNCHANGED <<dashboard, table, fetchOutcome, monthlyData, categoryData,
                   reportsByDayData, resolutionTimeData, locationData>>
    /\ AnalyticsFrame

\* variant: the aggregations run on whatever came back
FetchFailed_Never(outcome) == FALSE

\* `if (error || !issues)`
FetchFailed(outcome) == outcome \in {"error", "null"}

\* fetchData after the await: `select('*')` answered
FetchDataReturns(outcome) ==
    /\ analyticsPc = "pending"
    /\ analyticsPc' = "done"
    /\ fetchOutcome' = outcome
    /\ analyticsLoading' = FALSE
    /\ LET issues == IF outcome = "data" THEN table ELSE <<>>
       IN  IF FetchFailed(outcome)
           THEN UNCHANGED <<monthlyData, categoryData, reportsByDayData,
                            resolutionTimeData, locationData>>
           ELSE /\ monthlyData' = processMonthlyReports(issues)
                /\ locationData' = processLocationHotspots(issues)
                /\ IF dashboard = "primary"
                   THEN /\ categoryData' = processCategoryDistribution(issues)
                        /\ reportsByDayData' = processReportsByDay(issues)
                        /\ UNCHANGED resolutionTimeData
                   ELSE /\ categoryData' =
                              processCategoryDistributionPlain(issues)
                        /\ resolutionTimeData' =
                              processResolutionTimes(issues)
                        /\ UNCHANGED reportsByDayData
    /\ UNCHANGED <<dashboard, table>>
    /\ AnalyticsFrame

\* leaving the page discards the component; either dashboard may be opened next
UnmountAnalytics ==
    /\ analyticsPc # "idle"
    /\ analyticsPc' = "idle"
    /\ dashboard' \in Dashboards
    /\ fetchOutcome' = "none"
    /\ analyticsLoading' = TRUE
    /\ monthlyData' = <<>>
    /\ categoryData' = <<>>
    /\ reportsByDayData' = <<>>
    /\ resolutionTimeData' = <<>>
    /\ locationData' = <<>>
    /\ UNCHANGED table
    /\ AnalyticsFrame

InitAnalytics ==
    /\ ViewConstructed
    /\ LogConstructed
    /\ AuthConstructed
    /\ storage = [k \in Keys |-> None]
    /\ bootStorage = storage
    /\ session = FALSE
    /\ ModalConstructed
    /\ AnalyticsConstructed
    /\ dashboard \in Dashboards
    /\ table \in Tables

NextAnalytics ==
    \/ MountAnalytics
    \/ \E outcome \in {"data", "error", "null"} : FetchDataReturns(outcome)
    \/ UnmountAnalytics

SpecAnalytics == InitAnalytics /\ [][NextAnalytics]_vars

InitCategory ==
    /\ ViewConstructed
    /\ LogConstructed
    /\ AuthConstructed
    /\ storage = [k \in Keys |-> None]
    /\ bootStorage = storage
    /\ session = FALSE
    /\ ModalConstructed
    /\ AnalyticsConstructed
    /\ dashboard \in Dashboards
    /\ table \in CategoryTables

SpecCategory == InitCategory /\ [][NextAnalytics]_vars

-----------------------------------------------------------------------------
(* Properties of the Issue Collection View *)
Range(s) == { s[i] : i \in 1..Len(s) }

\* C1: no issue held in reports or filteredReports has is_spam = true,
\* whatever fetch completions and push events have happened.
C1_NoSpamHeld ==
    /\ \A i \in 1..Len(reports) : ~reports[i].is_spam
    /\ \A i \in 1..Len(filteredReports) : ~filteredReports[i].is_spam

\* C2: handling an INSERT event of a spam row leaves reports unchanged and
\* raises no 'New Issue Reported' notification; handling an INSERT of a
\* non-spam row makes that row the first element in front of the old reports.
C2_InsertHandling ==
    [][ (IsSome(delivered') /\ Get(delivered').eventType = "INSERT") =>
            LET new == Get(delivered').new
            IN  IF new.is_spam
                THEN /\ reports' = reports
                     /\ "New Issue Reported" \notin Range(toasts')
                ELSE /\ Len(reports') = Len(reports) + 1
                     /\ reports'[1] = new
                     /\ Tail(reports') = reports ]_vars

C2_Witness ==
    /\ IsSome(delivered)
    /\ Get(delivered).eventType = "INSERT"
    /\ Get(delivered).new.is_spam
    /\ reports # <<>>

-----------------------------------------------------------------------------
(* Properties of the filtered projection *)
SameLetter(c, d) == c = d \/ {c, d} = {"a", "A"} \/ {c, d} = {"b", "B"}

\* text contains term, letter case ignored
ContainsCI(text, term) ==
    \E off \in 0..(Len(text) - Len(term)) :
        \A k \in 1..Len(term) : SameLetter(text[off + k], term[k])

Passes(r, term, sf, cf) ==
    /\ \/ ContainsCI(r.title, term)
       \/ ContainsCI(r.description, term)
       \/ (r.location_name # None /\ ContainsCI(r.location_name[1], term))
    /\ (sf = "all" \/ r.status = sf)
    /\ (cf = "all" \/ r.category = cf)

PassingIndexes ==
    { i \in 1..Len(reports) :
        Passes(reports[i], searchTerm, statusFilter, categoryFilter) }

\* C8: an issue of the base collection is in the projection exactly when it
\* matches the search text (in title, description or a present location_name,
\* case ignored) and the status and category filters; with no search text
\* and both filters 'all' the projection holds the whole base collection.
C8_FilterIff ==
    /\ \A i \in 1..Len(reports) :
          (reports[i] \in Range(filteredReports)) <=> (i \in PassingIndexes)
    /\ Range(filteredReports) \subseteq Range(reports)
    /\ Len(filteredReports) = Cardinality(PassingIndexes)
    /\ (searchTerm = <<>> /\ statusFilter = "all" /\ categoryFilter = "all")
          => Len(filteredReports) = Len(reports)

C8_Witness ==
    /\ searchTerm # <<>>
    /\ statusFilter # "all"
    /\ categoryFilter # "all"
    /\ filteredReports # <<>>
    /\ Len(filteredReports) < Len(reports)

\* absent numbers count as 0
Val(o) == IF o = None THEN 0 ELSE o[1]

Stamp(d) == d[1] * 10000 + d[2] * 100 + d[3]

\* rank under a sort key: smaller ranks come first
Rank(r, key) ==
    CASE key = "popular" -> 0 - Val(r.upvotes_count)
      [] key = "priority" -> 0 - Val(r.priority_score)
      [] key = "oldest" -> Stamp(r.created_at)
      [] OTHER -> 0 - Stamp(r.created_at)

\* out is base's passing issues ordered by rank, ties in base order
OrderedBy(out, base, key) ==
    /\ \A i, j \in 1..Len(out) : i < j => Rank(out[i], key) <= Rank(out[j], key)
    /\ \A r \in Range(base) :
          SelectSeq(out, LAMBDA x : Rank(x, key) = Rank(r, key))
            = SelectSeq(base,
                LAMBDA x : /\ Rank(x, key) = Rank(r, key)
                           /\ Passes(x, searchTerm, statusFilter,
                                     categoryFilter))

\* C9: the projection is ordered by upvotes_count ('popular') or
\* priority_score ('priority') descending with absent values as 0, by
\* created_at descending ('newest' and unrecognised keys) or ascending
\* ('oldest'); equal keys keep base order; projecting the projection again
\* returns it unchanged.
C9_SortOrder ==
    /\ OrderedBy(filteredReports, reports, sortBy)
    /\ OrderedBy(Project(reports, searchTerm, statusFilter, categoryFilter,
                         "unknown"), reports, "unknown")
    /\ Project(filteredReports, searchTerm, statusFilter, categoryFilter,
               sortBy) = filteredReports

C9_Witness ==
    /\ sortBy = "popular"
    /\ Len(filteredReports) = 2
    /\ Len(reports) = 2
    /\ reports[1] # reports[2]
    /\ filteredReports[1] = reports[2]

-----------------------------------------------------------------------------
(* Properties of the session / role mirror and of AdminAuth.handleLogin *)
StartupDone == Quiescent /\ ~authLoading /\ ~adminLoading

\* C3: after a reload with isAuthenticated = 'true' and isAdmin = true in
\* storage, once the startup effects have run and both loading flags are
\* false, isAuthenticated and isAdmin are true and the isAdmin key is still
\* stored.
C3_ReloadKeepsAdmin ==
    ( /\ bootStorage["isAuthenticated"] = Some("true")
      /\ bootStorage["isAdmin"] = Some("true")
      /\ StartupDone
      /\ trace = <<>> )
    => ( /\ isAuthenticated
         /\ isAdmin
         /\ storage["isAdmin"] # None )

\* C4: in every state with no pending effect, a false isAuthenticated comes
\* with isAdmin = false and no stored isAdmin key, so isAdmin = true implies
\* isAuthenticated = true.
C4_RoleWithinSession ==
    Quiescent =>
        /\ ~isAuthenticated => (~isAdmin /\ storage["isAdmin"] = None)
        /\ isAdmin => isAuthenticated

C4_Witness ==
    /\ Quiescent
    /\ ~isAuthenticated
    /\ trace = <<"signOut", "logout", "navigate:/admin-login">>
    /\ signInResult = "user"
    /\ rpcResult = "true"

\* C5: once the startup read is done, isAuthenticated is true exactly when
\* the stored isAuthenticated is 'true', and isAdmin is true exactly when
\* the stored isAdmin is true.
C5_MirrorMatchesStorage ==
    /\ ~authLoading =>
          (isAuthenticated <=> storage["isAuthenticated"] = Some("true"))
    /\ ~adminLoading => (isAdmin <=> storage["isAdmin"] = Some("true"))

C5_Witness ==
    /\ ~authLoading
    /\ ~isAuthenticated
    /\ bootStorage["isAuthenticated"] = Some("true")
    /\ trace = <<"signOut", "logout", "navigate:/admin-login">>

Called(name) == \E i \in 1..Len(trace) : trace[i] = name

\* C6: login() and setAsAdmin() are called only after the sign-in returned a
\* user and the role check returned true; after a failed sign-in the role
\* check is not called and neither flag is set.
C6_LoginOnlyAfterRoleCheck ==
    /\ (Called("login") \/ Called("setAsAdmin")) =>
          /\ signInResult = "user"
          /\ rpcResult = "true"
          /\ trace = <<"signInWithPassword", "rpc:is_admin", "login",
                       "setAsAdmin">>
    /\ signInResult \in {"error", "nouser"} =>
          /\ trace = <<"signInWithPassword">>
          /\ ~isAuthenticated /\ ~isAdmin
          /\ storage["isAuthenticated"] # Some("true")
          /\ storage["isAdmin"] # Some("true")

C6_Witness ==
    /\ signInResult = "nouser"
    /\ loginPc = "idle"
    /\ toasts = <<"Authentication Failed">>

\* C7: when sign-in succeeded and the role check returned false, the handler
\* ends having called the backend sign-out and shown 'Authentication Failed',
\* with neither flag set in memory or storage and its loading flag false.
C7_NonAdminRejected ==
    (rpcResult = "false" /\ loginPc = "idle") =>
        /\ signInResult = "user"
        /\ trace = <<"signInWithPassword", "rpc:is_admin", "signOut">>
        /\ toasts = <<"Authentication Failed">>
        /\ ~isAuthenticated /\ ~isAdmin
        /\ storage["isAuthenticated"] # Some("true")
        /\ storage["isAdmin"] # Some("true")
        /\ ~loginLoading

C7_Witness ==
    /\ rpcResult = "false"
    /\ loginPc = "idle"
    /\ ~session

-----------------------------------------------------------------------------
(* Properties of ReportModal.handleSubmit *)
LocationMissing(f) == f.location = None \/ f.location = Some(Unavailable)
PhotoMissing(f) == f.photo = None
FieldMissing(f) == \E n \in FieldNames : ~f.fields[n]

\* C10: handleSubmit reports only the first failing precondition, in the
\* order location, photo, required fields; after a validation failure no
\* upload or insert has been called and isSubmitting is false. A form with
\* no photo never gets to the upload.
C10_ValidationOrder ==
    IsSome(submitSeen) =>
        LET f == Get(submitSeen)
            failed == LocationMissing(f) \/ PhotoMissing(f) \/ FieldMissing(f)
        IN  /\ LocationMissing(f) => toasts = <<"Location Required">>
            /\ (~LocationMissing(f) /\ PhotoMissing(f)) =>
                  toasts = <<"Photo Required">>
            /\ (~LocationMissing(f) /\ ~PhotoMissing(f) /\ FieldMissing(f)) =>
                  toasts = <<"Missing Information">>
            /\ failed => (trace = <<>> /\ ~isSubmitting /\ submitPc = "idle")
            /\ ~failed => (trace = <<"upload">> /\ isSubmitting)

C10_Witness ==
    /\ IsSome(submitSeen)
    /\ ~LocationMissing(Get(submitSeen))
    /\ PhotoMissing(Get(submitSeen))
    /\ FieldMissing(Get(submitSeen))


-----------------------------------------------------------------------------
(* ReportModal.handleSubmit: upload, then insert *)
SubmitFailed ==
    /\ submitPc # "idle"
    /\ submitPc' = "idle"
    /\ inserted' = inserted

C11_Step ==
    /\ submitPc' = "insert" =>
          /\ stored' # None
          /\ imageUrl' = Some(PublicUrl(Get(stored')))
          /\ trace' = <<"upload", "getPublicUrl", "insert">>
    /\ (submitPc = "upload" /\ submitPc' # "upload" /\ stored' = None) =>
          /\ submitPc' = "idle"
          /\ "insert" \notin Range(trace')
    /\ Len(inserted') > Len(inserted) =>
          /\ submitPc = "insert"
          /\ stored # None
    /\ \A i \in 1..Len(inserted') :
          /\ inserted'[i].status = "new"
          /\ inserted'[i].image_url # None
    /\ SubmitFailed =>
          /\ toasts' = Append(toasts, "Submission Failed")
          /\ modalOpen' = modalOpen
          /\ inserted' = <<>>

\* C11: the insert is attempted only after the photo upload succeeded and its
\* public URL was obtained; a failed upload is followed by no insert; every
\* inserted row has status 'new' and an image_url; a failure of either step
\* raises 'Submission Failed', leaves the modal as it was and inserts no row.
C11_SubmitSequence == [][C11_Step]_vars

C11_Witness ==
    /\ Len(inserted) = 1
    /\ inserted[1] = NewIssue(Some(PublicUrl(ObjectName)))
    /\ toasts = <<"Report Submitted!">>
    /\ ~modalOpen

Count(x, seq) == Cardinality({ i \in 1..Len(seq) : seq[i] = x })

\* C12: while isSubmitting holds exactly one request of the form is in flight
\* and no other can be started; when it does not hold none is in flight (no
\* retry); an accepted submit makes at most one upload and one insert.
C12_AtMostOnce ==
    /\ requests <= 1
    /\ isSubmitting <=> (requests = 1)
    /\ isSubmitting <=> (submitPc # "idle")
    /\ Count("upload", trace) <= 1
    /\ Count("insert", trace) <= 1
    /\ Len(inserted) <= 1

C12_Witness ==
    /\ isSubmitting
    /\ modalOpen
    /\ Validate(location, photo, fields) = None
    /\ submitPc = "insert"
    /\ requests = 1


-----------------------------------------------------------------------------
(* ViewReports.handleExport *)
SameIssue(row, report) ==
    /\ row.ID = report.id
    /\ row.Title = report.title
    /\ row.Description = report.description
    /\ row.Category = report.category
    /\ row.Status = report.status

\* C13: with an empty projection handleExport writes no file and raises
\* 'No Data to Export'; otherwise it writes exactly one file with one row per
\* issue of the filtered projection, in projection order, and announces that
\* count.
C13_ExportProjection ==
    exported # None =>
        LET e == Get(exported)
        IN  IF filteredReports = <<>>
            THEN /\ e.files = <<>>
                 /\ e.announced = None
                 /\ toasts = <<"No Data to Export">>
            ELSE /\ Len(e.files) = 1
                 /\ Len(e.files[1]) = Len(filteredReports)
                 /\ \A i \in 1..Len(filteredReports) :
                       SameIssue(e.files[1][i], filteredReports[i])
                 /\ e.announced = Some(Len(filteredReports))
                 /\ toasts = <<"Export Successful">>

C13_Witness ==
    /\ exported # None
    /\ Len(Get(exported).files) = 1
    /\ Len(filteredReports) = 1
    /\ Len(reports) = 2
    /\ Get(exported).announced = Some(1)


-----------------------------------------------------------------------------
(* Properties of the analytics aggregations *)
Aggregated == analyticsPc = "done" /\ fetchOutcome = "data"

\* Julian day number of a calendar date (Fliegel and Van Flandern)
JulianDay(d) ==
    LET a == (14 - d[2]) \div 12
        y == d[1] + 4800 - a
        m == d[2] + 12 * a - 3
    IN  d[3] + ((153 * m + 2) \div 5) + 365 * y + (y \div 4) - (y \div 100)
            + (y \div 400) - 32045

\* 0 is Sunday
Weekday(d) == (JulianDay(d) + 1) % 7

RECURSIVE SumOver(_, _)
SumOver(f, S) ==
    IF S = {} THEN 0
    ELSE LET x == CHOOSE x \in S : TRUE
         IN  f[x] + SumOver(f, S \ {x})

SumCounts(buckets) ==
    SumOver([j \in 1..Len(buckets) |-> buckets[j].count], 1..Len(buckets))

CountDescending(buckets) ==
    \A j \in 1..(Len(buckets) - 1) : buckets[j].count >= buckets[j + 1].count

\* C14: the day-of-week list always has the seven buckets Sun..Sat in that
\* order, each counting the issues created on that weekday, and the counts
\* add up to the number of issues.
C14_SevenWeekdays ==
    (Aggregated /\ dashboard = "primary") =>
        /\ Len(reportsByDayData) = 7
        /\ [d \in 1..7 |-> reportsByDayData[d].day]
              = <<"Sun", "Mon", "Tue", "Wed", "Thu", "Fri", "Sat">>
        /\ \A d \in 1..7 :
              reportsByDayData[d].count =
                Cardinality({ i \in 1..Len(table) :
                                Weekday(table[i].created_at) = d - 1 })
        /\ SumCounts(reportsByDayData) = Len(table)

C14_Witness ==
    /\ Aggregated
    /\ dashboard = "primary"
    /\ Len(table) = 3
    /\ reportsByDayData[6].count = 2
    /\ reportsByDayData[1].count = 1

LocationOf(issue) ==
    IF issue.location_name = None THEN "Unknown"
    ELSE Get(issue.location_name)

LocationsOf(issues) == { LocationOf(issues[i]) : i \in 1..Len(issues) }

IssuesAt(issues, k) ==
    Cardinality({ i \in 1..Len(issues) : LocationOf(issues[i]) = k })

Emitted == { locationData[j].location : j \in 1..Len(locationData) }

MonthsOf(issues) ==
    { <<issues[i].created_at[1], issues[i].created_at[2]>> :
        i \in 1..Len(issues) }

InMonth(issues, ym) ==
    { i \in 1..Len(issues) :
        /\ issues[i].created_at[1] = ym[1]
        /\ issues[i].created_at[2] = ym[2] }

\* C16: the monthly list has one bucket per (month, year) holding at least
\* one issue and no other; its total is the number of issues created in that
\* month, its resolved the number of those with status 'resolved', so
\* resolved <= total, and the totals add up to the number of issues.
C16_MonthlyBuckets ==
    Aggregated =>
        /\ Len(monthlyData) = Cardinality(MonthsOf(table))
        /\ \A ym \in MonthsOf(table) :
              \E j \in 1..Len(monthlyData) :
                  /\ monthlyData[j].month = formatMonth(<<ym[1], ym[2], 1>>)
                  /\ monthlyData[j].total = Cardinality(InMonth(table, ym))
                  /\ monthlyData[j].resolved =
                        Cardinality({ i \in InMonth(table, ym) :
                                        table[i].status = "resolved" })
        /\ \A j \in 1..Len(monthlyData) :
              monthlyData[j].resolved <= monthlyData[j].total
        /\ SumOver([j \in 1..Len(monthlyData) |-> monthlyData[j].total],
                   1..Len(monthlyData)) = Len(table)

\* two Pothole issues of January 2024, one of them resolved, and one issue of
\* January 2023
C16_Witness ==
    /\ Aggregated
    /\ Len(table) = 3
    /\ MonthsOf(table) = {<<2024, 1>>, <<2023, 1>>}
    /\ \E j \in 1..2 :
          monthlyData[j] = [month |-> <<"Jan", 24>>, total |-> 2,
                            resolved |-> 1]

Contributing(issues, c) ==
    { i \in 1..Len(issues) :
        /\ issues[i].category = c
        /\ issues[i].status = "resolved"
        /\ issues[i].resolved_at # None }

ElapsedHours(issue) ==
    24 * (JulianDay(Get(issue.resolved_at)) - JulianDay(issue.created_at))

CategoryOf(bucket) ==
    IF dashboard = "primary" THEN bucket.name ELSE bucket.category

\* C18: on either dashboard the category list has one bucket per distinct
\* category of the table, whatever text the category is, counting its issues,
\* and the counts add up to the number of issues; on the primary dashboard
\* the list is sorted by count descending and the bucket at rank i (from 0)
\* has the colour COLORS[i mod 6].
C18_CategoryBuckets ==
    Aggregated =>
        /\ Len(categoryData) =
              Cardinality({ table[i].category : i \in 1..Len(table) })
        /\ \A i \in 1..Len(table) :
              \E j \in 1..Len(categoryData) :
                  /\ CategoryOf(categoryData[j]) = table[i].category
                  /\ categoryData[j].count =
                        Cardinality({ k \in 1..Len(table) :
                                        table[k].category = table[i].category })
        /\ SumCounts(categoryData) = Len(table)
        /\ dashboard = "primary" =>
              /\ CountDescending(categoryData)
              /\ \A j \in 1..Len(categoryData) :
                    categoryData[j].fill = COLORS[((j - 1) % 6) + 1]

\* C20: when the dashboard's fetch comes back with an error or without data,
\* every aggregate list keeps its initial empty value and loading ends false.
C20_FailedFetchLeavesEmpty ==
    (analyticsPc = "done" /\ fetchOutcome \in {"error", "null"}) =>
        /\ monthlyData = <<>>
        /\ categoryData = <<>>
        /\ reportsByDayData = <<>>
        /\ resolutionTimeData = <<>>
        /\ locationData = <<>>
        /\ ~analyticsLoading

C20_Witness ==
    /\ analyticsPc = "done"
    /\ fetchOutcome = "error"
    /\ dashboard = "primary"
    /\ table # <<>>
    /\ ~analyticsLoading
    /\ reportsByDayData = <<>>


-----------------------------------------------------------------------------
(* ViewReports: a failed initial fetch *)
\* C19: once the initial fetch has come back with an error, the error state
\* is set, loading is false, the error panel is shown instead of the issue
\* list, and no fetch is pending again for that mount.
C19_FetchErrorShown ==
    error # None =>
        /\ ~loading
        /\ ErrorPanelShown
        /\ ~ListShown
        /\ ~SkeletonShown
        /\ fetchPc = "done"


-----------------------------------------------------------------------------
(* ViewReports: the push-feed subscription *)
\* C21: a mounted view holds exactly one active channel, never more, and
\* once the effect is cleaned up (unmount) no channel it opened is left:
\* each subscribe is matched by one removeChannel.
C21_OneChannelPerMount ==
    /\ activeChannels <= 1
    /\ viewMounted => (activeChannels = 1 /\ channelOpen)
    /\ ~viewMounted => (activeChannels = 0 /\ ~channelOpen)

\* the view was unmounted after its channel had delivered an event
C21_Witness ==
    /\ ~viewMounted
    /\ announced # {}
    /\ activeChannels = 0


HeldIds == { reports[i].id : i \in 1..Len(reports) }

\* C22: every issue announced to the mounted view by a non-spam INSERT event
\* is held in reports in every later state of that mount, also when the event
\* came before the initial fetch resolved.
C22_InsertsKept == merged \subseteq HeldIds


Handled(type) == delivered' # None /\ Get(delivered').eventType = type

C24_Step ==
    (Handled("UPDATE") /\ Get(delivered').new.id \in HeldIds) =>
        /\ Len(reports') = Len(reports)
        /\ \A i \in 1..Len(reports) :
              /\ reports[i].id = Get(delivered').new.id =>
                    reports'[i] = Get(delivered').new
              /\ reports[i].id # Get(delivered').new.id =>
                    reports'[i] = reports[i]

\* C24: an UPDATE event for an id held in reports puts the event's new row at
\* the position of the element with that id; the length of reports and every
\* element with another id, at its position, are unchanged.
C24_UpdateInPlace == [][C24_Step]_vars

\* the second of two held issues has just been replaced by an UPDATE
C24_Witness ==
    /\ delivered # None
    /\ Get(delivered).eventType = "UPDATE"
    /\ Len(reports) = 2
    /\ reports[2] = Get(delivered).new
    /\ reports[1].id # reports[2].id

C25_Step ==
    (\/ Handled("DELETE")
     \/ Handled("UPDATE") /\ Get(delivered').new.id \notin HeldIds) =>
        /\ reports' = reports
        /\ toasts' = <<>>

\* C25: a DELETE event, and an UPDATE event for an id that no held issue
\* has, leave reports as it was and raise no notification.
C25_Ignored == [][C25_Step]_vars

\* an UPDATE for an issue that is not held has just been handled
C25_Witness ==
    /\ delivered # None
    /\ Get(delivered).eventType = "UPDATE"
    /\ reports # <<>>
    /\ Get(delivered).new.id \notin HeldIds
    /\ toasts = <<>>


\* C26: whatever the interleaving of the fetch's resolution with INSERT and
\* UPDATE events, no two elements of reports have the same id.
C26_UniqueIds ==
    \A i, j \in 1..Len(reports) : reports[i].id = reports[j].id => i = j


-----------------------------------------------------------------------------
(* ReportModal: the geolocation effect *)
\* a position request ends without starting a reverse-geocode lookup
GeoFailureStep ==
    /\ geoPending' = geoPending - 1
    /\ geocodePending' = geocodePending

GeoRequestStep == geoPending' > geoPending

SubmitStep == submitSeen' # None

C27_Step ==
    /\ (geoFailed' /\ ~geoFailed) => location' = Some(Unavailable)
    /\ geoFailed => ~GeoRequestStep
    /\ (geoFailed /\ SubmitStep) => toasts' = <<"Location Required">>

\* C27: the geolocation failure stores the 'Location unavailable' sentinel;
\* from then on the component issues no further geolocation request and
\* rejects every handleSubmit with 'Location Required'.
C27_SentinelSticks == [][C27_Step]_vars


SentinelStored == location = Some(Unavailable)

C27_AmendedStep ==
    /\ GeoFailureStep => location' = Some(Unavailable)
    /\ SentinelStored => ~GeoRequestStep
    /\ (SentinelStored /\ SubmitStep) =>
          /\ toasts' = <<"Location Required">>
          /\ UNCHANGED <<isSubmitting, submitPc, requests>>
    /\ (SentinelStored /\ location' # location) =>
          \/ geocodePending' = geocodePending - 1
          \/ submitPc = "insert" /\ submitPc' = "idle"

\* C27 as amended: the geolocation failure stores the sentinel; while the
\* sentinel is stored no geolocation request is issued and every handleSubmit
\* is rejected with 'Location Required'; the sentinel is replaced only when a
\* reverse-geocode lookup or an accepted submission that was already in
\* flight completes.
C27_SentinelWhileStored == [][C27_AmendedStep]_vars

\* a complete form has just been rejected because of the sentinel
C27_Witness ==
    /\ geoFailed
    /\ SentinelStored
    /\ submitSeen # None
    /\ photo # None
    /\ \A f \in FieldNames : fields[f]
    /\ toasts = <<"Location Required">>
    /\ ~isSubmitting


-----------------------------------------------------------------------------
(* AdminAuth.handleLogin and UserMenu.handleLogout: the backend session *)
LoginEnded ==
    /\ loginPc = "idle"
    /\ trace # <<>>
    /\ Head(trace) = "signInWithPassword"
    /\ signInResult # "none"

\* C28: when handleLogin has ended after a successful sign-in without
\* calling login(), it has called the backend sign-out: no signed-in backend
\* session is left behind with isAuthenticated unset.
C28_SignedOutUnlessLoggedIn ==
    (LoginEnded /\ signInResult = "user" /\ ~Called("login")) =>
        Called("signOut")

CalledBefore(first, second) ==
    \A i \in 1..Len(trace) :
        trace[i] = second => \E j \in 1..(i - 1) : trace[j] = first

\* C29: handleLogout calls logout() only after the backend sign-out has
\* resolved and navigates to /admin-login only after logout(); once the
\* effects that follow have run, isAuthenticated and isAdmin are false and
\* neither key is stored.
C29_LogoutSequence ==
    /\ logoutPc = "signOut" => ~Called("logout")
    /\ CalledBefore("signOut", "logout")
    /\ CalledBefore("logout", "navigate:/admin-login")
    /\ (Quiescent /\ Called("logout")) =>
          /\ ~isAuthenticated
          /\ ~isAdmin
          /\ storage["isAuthenticated"] = None
          /\ storage["isAdmin"] = None

C29_Witness ==
    /\ Quiescent
    /\ Called("navigate:/admin-login")
    /\ bootStorage["isAuthenticated"] = Some("true")
    /\ bootStorage["isAdmin"] = Some("true")
    /\ signInResult = "none"
    /\ ~session

-----------------------------------------------------------------------------
(* ProtectedRoute and AdminAuth: what is rendered *)
Guarded == ProtectedRoute(authLoading, isAuthenticated)

\* C30: ProtectedRoute renders its children only when loading is false and
\* isAuthenticated is true, the placeholder while loading, and the redirect
\* to /admin-login when loading is false and isAuthenticated is false;
\* AdminAuth renders the login form only when loading is false and
\* isAuthenticated is false, and navigates to /admin whenever isAuthenticated
\* is true.
C30_RouteGates ==
    /\ Guarded = "children" => (~authLoading /\ isAuthenticated)
    /\ authLoading => Guarded = "Loading..."
    /\ (~authLoading /\ ~isAuthenticated) => Guarded = "Navigate:/admin-login"
    /\ AdminAuth(authLoading, isAuthenticated) = "form" =>
          (~authLoading /\ ~isAuthenticated)
    /\ isAuthenticated => NavigatesToAdmin(authLoading, isAuthenticated)
    /\ logoutPc # "idle" => Guarded = "children"

C30_Witness ==
    /\ Guarded = "children"
    /\ NavigatesToAdmin(authLoading, isAuthenticated)
    /\ Called("setAsAdmin")
    /\ Quiescent

-----------------------------------------------------------------------------
(* The busy flags of the two handlers *)
\* C23: whenever isSubmitting is set by handleSubmit it is cleared again,
\* whether the upload and the insert succeed or fail, and whenever
\* handleLogin has set its loading flag it is cleared again, whatever the
\* sign-in, the role check and the sign-out return.
C23_FlagsCleared ==
    /\ isSubmitting ~> ~isSubmitting
    /\ loginLoading ~> ~loginLoading

C23_Witness ==
    /\ ~isSubmitting
    /\ ~loginLoading
    /\ Len(toasts) > 0
    /\ toasts[Len(toasts)] = "Submission Failed"
    /\ rpcResult = "error"
    /\ stored # None

=============================================================================
